---- MODULE Spec2Model ----
(***************************************************************************)
(* Padel league manager (src/server.js, src/init.sql).                     *)
(*                                                                         *)
(* src/server.js holds two generations of the HTTP handlers: lines 1-321   *)
(* (called version 1 here) and lines 322-674 (version 2).  Both are        *)
(* modelled; an operation takes the version as its first parameter.        *)
(*                                                                         *)
(* The database is the state: the players and fixtures tables of           *)
(* src/init.sql.  Columns no handler ever reads (name, created_at,         *)
(* match_date, player1_score, player2_score) are left out.  A nullable     *)
(* column holds Null or Some(v).                                           *)
(***************************************************************************)
EXTENDS Integers, Sequences, FiniteSets, TLC

\* ------------------------------------------------------------- bounds
MaxDivisions == 2
MaxPlayers == 3
\* fixtures.id is SERIAL: the model stops inserting at this id
MaxFixtureId == 3
\* connections of the pool that serve requests at the same time
NumClients == 2
\* players of the division the concurrent requests work on
NumTxPlayers == 2

\* ------------------------------------------------------------- values
Null == <<>>
Some(x) == <<x>>
IsNull(m) == Len(m) = 0
Val(m) == m[1]

Max(a, b) == IF a >= b THEN a ELSE b
Min(a, b) == IF a <= b THEN a ELSE b

Versions == {1, 2}

VARIABLES
    nDivisions,   \* divisions table: ids 1..nDivisions
    players,      \* players table: sequence of rows, id = index (SERIAL)
    fixtures,     \* fixtures table: function from id to row
    nextFixtureId,\* the fixtures_id_seq sequence
    last,         \* the last request handled and its response
    tx,           \* per pooled client: the request it runs and its open transaction
    db0           \* the database the concurrent requests started from

vars == <<nDivisions, players, fixtures, nextFixtureId, last, tx, db0>>

\* ------------------------------------------------------------- schema
\* players row as INSERT INTO players (division_id, name) leaves it
NewPlayer(d) == [division_id |-> d, played |-> 0, won |-> 0, lost |-> 0, points |-> 0]

\* fixtures row as INSERT INTO fixtures (division_id, player1_id, player2_id) leaves it
NewFixture(d, p1, p2) ==
    [division_id |-> d, player1_id |-> p1, player2_id |-> p2,
     set_scores |-> Null, player1_sets |-> Some(0), player2_sets |-> Some(0),
     winner_id |-> Null, played |-> FALSE]

PlayersOf(pl, d) == {p \in 1..Len(pl) : pl[p].division_id = d}
FixturesOf(fx, d) == {f \in DOMAIN fx : fx[f].division_id = d}

\* ------------------------------------------------------------- SetGridValidator
looksLikeSet(a, b) ==
    LET winner == Max(a, b)
        loser == Min(a, b)
        diff == winner - loser
    IN  (winner = 6 /\ diff >= 2) \/ (winner = 7 /\ (diff = 1 \/ diff = 2))

\* the checks of one entry of the grid, in the order of the loop body
EntryErrorV1(s) ==
    IF Len(s) # 2 THEN "MalformedSet"
    ELSE IF s[1] < 0 \/ s[2] < 0 THEN "MalformedSet"
    ELSE IF s[1] = s[2] THEN "TiedSet"
    ELSE IF ~looksLikeSet(s[1], s[2]) THEN "ImplausibleSetScore"
    ELSE "ok"

EntryErrorV2(s) ==
    IF Len(s) # 2 THEN "MalformedSet"
    ELSE IF s[1] < 0 \/ s[2] < 0 THEN "MalformedSet"
    ELSE IF s[1] = s[2] THEN "TiedSet"
    ELSE "ok"

\* the for loop over the entries: stops at the first entry that throws
RECURSIVE ScanGrid(_, _, _, _, _)
ScanGrid(v, grid, i, p1Sets, p2Sets) ==
    IF i > Len(grid)
    THEN [error |-> "ok", p1Sets |-> p1Sets, p2Sets |-> p2Sets]
    ELSE LET e == IF v = 1 THEN EntryErrorV1(grid[i]) ELSE EntryErrorV2(grid[i])
         IN  IF e # "ok"
             THEN [error |-> e, p1Sets |-> p1Sets, p2Sets |-> p2Sets]
             ELSE IF grid[i][1] > grid[i][2]
                  THEN ScanGrid(v, grid, i + 1, p1Sets + 1, p2Sets)
                  ELSE ScanGrid(v, grid, i + 1, p1Sets, p2Sets + 1)

\* (mutant) the tallies returned without the draw check
CountSets_DrawAllowed(v, setScores) ==
    IF Len(setScores) = 0 THEN [error |-> "InvalidGrid", p1Sets |-> 0, p2Sets |-> 0]
    ELSE IF Len(setScores) > 3 THEN [error |-> "TooManySets", p1Sets |-> 0, p2Sets |-> 0]
    ELSE ScanGrid(v, setScores, 1, 0, 0)

CountSets(v, setScores) ==
    IF Len(setScores) = 0 THEN [error |-> "InvalidGrid", p1Sets |-> 0, p2Sets |-> 0]
    ELSE IF Len(setScores) > 3 THEN [error |-> "TooManySets", p1Sets |-> 0, p2Sets |-> 0]
    ELSE LET r == ScanGrid(v, setScores, 1, 0, 0)
         IN  IF r.error # "ok" THEN r
             ELSE IF r.p1Sets = r.p2Sets THEN [r EXCEPT !.error = "DrawNotAllowed"]
             ELSE r

\* version 1: the validator function; cleaned is the grid itself on integers
computeSetsFromGrid(setScores) ==
    LET r == CountSets(1, setScores)
    IN  [error |-> r.error, p1Sets |-> r.p1Sets, p2Sets |-> r.p2Sets,
         cleaned |-> Some(setScores)]

\* ------------------------------------------------------------- StandingsLedger
\* UPDATE players SET played = played + 1, won = won + $w, lost = lost + $l,
\*                    points = points + $w WHERE id = $pid
ApplyStats(pl, pid, w, l) ==
    [pl EXCEPT ![pid] = [@ EXCEPT !.played = @ + 1, !.won = @ + w,
                                  !.lost = @ + l, !.points = @ + w]]

\* (mutant) the reverse with its two set counts exchanged
ReverseStatsV1_Swapped(pl, pid, w, l) ==
    [pl EXCEPT ![pid] = [@ EXCEPT !.played = @ - 1, !.won = @ - l,
                                  !.lost = @ - w, !.points = @ - l]]

\* version 1: UPDATE players SET played = played - 1, won = won - $w, ...
ReverseStatsV1(pl, pid, w, l) ==
    [pl EXCEPT ![pid] = [@ EXCEPT !.played = @ - 1, !.won = @ - w,
                                  !.lost = @ - l, !.points = @ - w]]

\* version 2: the same with played = GREATEST(played - 1, 0)
ReverseStatsV2(pl, pid, w, l) ==
    [pl EXCEPT ![pid] = [@ EXCEPT !.played = Max(@ - 1, 0), !.won = @ - w,
                                  !.lost = @ - l, !.points = @ - w]]

\* version 2, legacy match-based record: the old winner and the old loser
ReverseLegacyWinner(pl, pid) ==
    [pl EXCEPT ![pid] = [@ EXCEPT !.played = Max(@ - 1, 0), !.won = Max(@ - 1, 0),
                                  !.points = Max(@ - 3, 0)]]

ReverseLegacyLoser(pl, pid) ==
    [pl EXCEPT ![pid] = [@ EXCEPT !.played = Max(@ - 1, 0), !.lost = Max(@ - 1, 0)]]

\* Number(fixture.player1_sets) || 0
PrevSetsV1(m) == IF IsNull(m) THEN 0 ELSE Val(m)

\* Whether the request undoes a previous result, and the two UPDATEs of the
\* undo block: the row the k-th one names and the table after it.
\* Version 1: if (fixture.played), with the stored set counts.
NeedsReverseV1(fixture) == fixture.played

ReverseRowV1(fixture, k) == IF k = 1 THEN fixture.player1_id ELSE fixture.player2_id

ReverseUpdateV1(pl, fixture, k) ==
    LET prevP1Sets == PrevSetsV1(fixture.player1_sets)
        prevP2Sets == PrevSetsV1(fixture.player2_sets)
    IN  IF k = 1 THEN ReverseStatsV1(pl, fixture.player1_id, prevP1Sets, prevP2Sets)
        ELSE ReverseStatsV1(pl, fixture.player2_id, prevP2Sets, prevP1Sets)

\* Version 2: set-based when both stored counts are integers, else the legacy
\* undo when winner_id is set, else nothing.
SetBasedV2(fixture) == ~IsNull(fixture.player1_sets) /\ ~IsNull(fixture.player2_sets)

NeedsReverseV2(fixture) ==
    fixture.played /\ (SetBasedV2(fixture) \/ ~IsNull(fixture.winner_id))

oldLoser(fixture) ==
    IF Val(fixture.winner_id) = fixture.player1_id THEN fixture.player2_id
    ELSE fixture.player1_id

ReverseRowV2(fixture, k) ==
    IF SetBasedV2(fixture)
    THEN IF k = 1 THEN fixture.player1_id ELSE fixture.player2_id
    ELSE IF k = 1 THEN Val(fixture.winner_id) ELSE oldLoser(fixture)

ReverseUpdateV2(pl, fixture, k) ==
    IF SetBasedV2(fixture)
    THEN LET oldP1Sets == Val(fixture.player1_sets)
             oldP2Sets == Val(fixture.player2_sets)
         IN  IF k = 1 THEN ReverseStatsV2(pl, fixture.player1_id, oldP1Sets, oldP2Sets)
             ELSE ReverseStatsV2(pl, fixture.player2_id, oldP2Sets, oldP1Sets)
    ELSE IF k = 1 THEN ReverseLegacyWinner(pl, Val(fixture.winner_id))
         ELSE ReverseLegacyLoser(pl, oldLoser(fixture))

NeedsReverse(v, fixture) ==
    IF v = 1 THEN NeedsReverseV1(fixture) ELSE NeedsReverseV2(fixture)
ReverseRow(v, fixture, k) ==
    IF v = 1 THEN ReverseRowV1(fixture, k) ELSE ReverseRowV2(fixture, k)
ReverseUpdate(v, pl, fixture, k) ==
    IF v = 1 THEN ReverseUpdateV1(pl, fixture, k) ELSE ReverseUpdateV2(pl, fixture, k)

\* the whole undo block
ReversePrior(v, pl, fixture) ==
    IF NeedsReverse(v, fixture)
    THEN ReverseUpdate(v, ReverseUpdate(v, pl, fixture, 1), fixture, 2)
    ELSE pl

\* the two "apply" UPDATEs: the row the k-th one names and the table after it
ApplyRow(fixture, k) == IF k = 1 THEN fixture.player1_id ELSE fixture.player2_id

ApplyUpdate(pl, fixture, p1Sets, p2Sets, k) ==
    IF k = 1 THEN ApplyStats(pl, fixture.player1_id, p1Sets, p2Sets)
    ELSE ApplyStats(pl, fixture.player2_id, p2Sets, p1Sets)

ApplyResult(pl, fixture, p1Sets, p2Sets) ==
    ApplyUpdate(ApplyUpdate(pl, fixture, p1Sets, p2Sets, 1), fixture, p1Sets, p2Sets, 2)

\* ------------------------------------------------------------- request payload
\* req.body of PUT /api/fixtures/:id/result: each field Null (absent) or Some
Payload(grid) == [set_scores |-> Some(grid), player1_score |-> Null, player2_score |-> Null]
Totals(a, b) == [set_scores |-> Null, player1_score |-> Some(a), player2_score |-> Some(b)]

\* version 1: set_scores, else the integer totals taken as the set counts
ParseV1(body) ==
    IF ~IsNull(body.set_scores) THEN computeSetsFromGrid(Val(body.set_scores))
    ELSE IF IsNull(body.player1_score) \/ IsNull(body.player2_score)
    THEN [error |-> "InvalidGrid", p1Sets |-> 0, p2Sets |-> 0, cleaned |-> Null]
    ELSE IF Val(body.player1_score) = Val(body.player2_score)
    THEN [error |-> "DrawNotAllowed", p1Sets |-> 0, p2Sets |-> 0, cleaned |-> Null]
    ELSE [error |-> "ok", p1Sets |-> Val(body.player1_score),
          p2Sets |-> Val(body.player2_score), cleaned |-> Null]

\* version 2: set_scores, else the integer totals stored as a single set
normalizedSetScores(body) ==
    IF ~IsNull(body.set_scores) THEN body.set_scores
    ELSE IF ~IsNull(body.player1_score) /\ ~IsNull(body.player2_score)
            /\ Val(body.player1_score) # Val(body.player2_score)
    THEN Some(<< <<Val(body.player1_score), Val(body.player2_score)>> >>)
    ELSE Null

ParseV2(body) ==
    LET n == normalizedSetScores(body)
    IN  IF IsNull(n)
        THEN [error |-> "InvalidGrid", p1Sets |-> 0, p2Sets |-> 0, cleaned |-> Null]
        ELSE LET r == CountSets(2, Val(n))
             IN  [error |-> r.error, p1Sets |-> r.p1Sets, p2Sets |-> r.p2Sets, cleaned |-> n]

\* ------------------------------------------------------------- fixture row update
\* (mutant) the side with fewer sets taken as the winner
winnerId_Reversed(fixture, p1Sets, p2Sets) ==
    IF p1Sets > p2Sets THEN fixture.player2_id ELSE fixture.player1_id

winnerId(fixture, p1Sets, p2Sets) ==
    IF p1Sets > p2Sets THEN fixture.player1_id ELSE fixture.player2_id

\* version 1: set_scores = COALESCE($3, set_scores)
SaveResultV1(fixture, r) ==
    [fixture EXCEPT !.player1_sets = Some(r.p1Sets), !.player2_sets = Some(r.p2Sets),
                    !.set_scores = IF IsNull(r.cleaned) THEN @ ELSE r.cleaned,
                    !.winner_id = Some(winnerId(fixture, r.p1Sets, r.p2Sets)),
                    !.played = TRUE]

\* (mutant) the UPDATE flipping played instead of setting it
SaveResultV2_TogglesPlayed(fixture, r) ==
    [fixture EXCEPT !.player1_sets = Some(r.p1Sets), !.player2_sets = Some(r.p2Sets),
                    !.set_scores = r.cleaned,
                    !.winner_id = Some(winnerId(fixture, r.p1Sets, r.p2Sets)),
                    !.played = ~fixture.played]

SaveResultV2(fixture, r) ==
    [fixture EXCEPT !.player1_sets = Some(r.p1Sets), !.player2_sets = Some(r.p2Sets),
                    !.set_scores = r.cleaned,
                    !.winner_id = Some(winnerId(fixture, r.p1Sets, r.p2Sets)),
                    !.played = TRUE]

SaveResult(v, fixture, r) ==
    IF v = 1 THEN SaveResultV1(fixture, r) ELSE SaveResultV2(fixture, r)

\* ------------------------------------------------------------- ResultRecorder
\* One whole request run alone against tables pl, fx.
\* Version 1: BEGIN, look the fixture up, reverse, validate (a throw rolls the
\* reverse back), save, apply, COMMIT.
recordResultV1(pl, fx, id, body) ==
    IF id \notin DOMAIN fx
    THEN [status |-> "FixtureNotFound", players |-> pl, fixtures |-> fx, prior |-> FALSE]
    ELSE LET fixture == fx[id]
             reversed == ReversePrior(1, pl, fixture)
             r == ParseV1(body)
         IN  IF r.error # "ok"
             THEN [status |-> r.error, players |-> pl, fixtures |-> fx,
                   prior |-> fixture.played]
             ELSE [status |-> "ok",
                   players |-> ApplyResult(reversed, fixture, r.p1Sets, r.p2Sets),
                   fixtures |-> [fx EXCEPT ![id] = SaveResultV1(fixture, r)],
                   prior |-> fixture.played]

\* Version 2: validate before anything else, then BEGIN, look the fixture up
\* FOR UPDATE, reverse, save, apply, COMMIT.
recordResultV2(pl, fx, id, body) ==
    LET r == ParseV2(body)
    IN  IF r.error # "ok"
        THEN [status |-> r.error, players |-> pl, fixtures |-> fx,
              prior |-> id \in DOMAIN fx /\ fx[id].played]
        ELSE IF id \notin DOMAIN fx
        THEN [status |-> "FixtureNotFound", players |-> pl, fixtures |-> fx,
              prior |-> FALSE]
        ELSE LET fixture == fx[id]
                 reversed == ReversePrior(2, pl, fixture)
             IN  [status |-> "ok",
                  players |-> ApplyResult(reversed, fixture, r.p1Sets, r.p2Sets),
                  fixtures |-> [fx EXCEPT ![id] = SaveResultV2(fixture, r)],
                  prior |-> fixture.played]

recordResult(v, pl, fx, id, body) ==
    IF v = 1 THEN recordResultV1(pl, fx, id, body) ELSE recordResultV2(pl, fx, id, body)

\* ------------------------------------------------------------- FixtureGenerator
\* the rows SELECT * FROM players WHERE division_id = $1 may return: the
\* statement has no ORDER BY, so any order of the division's players
Rosters(pl, d) ==
    LET S == PlayersOf(pl, d)
        n == Cardinality(S)
    IN  {r \in [1..n -> S] : \A i, j \in 1..n : i # j => r[i] # r[j]}

\* the nested loops: (i, j) for i from first to last and every later j
RECURSIVE PairsFrom(_, _, _)
PairsFrom(roster, i, j) ==
    IF i > Len(roster) THEN <<>>
    ELSE IF j > Len(roster) THEN PairsFrom(roster, i + 1, i + 2)
    ELSE << <<roster[i], roster[j]>> >> \o PairsFrom(roster, i, j + 1)

\* (mutant) the inner loop starting at j = i
Pairs_FromSelf(roster) == PairsFrom(roster, 1, 1)

Pairs(roster) == PairsFrom(roster, 1, 2)

\* DELETE FROM fixtures WHERE division_id = $1
DeleteFixtures(fx, d) == [f \in DOMAIN fx \ FixturesOf(fx, d) |-> fx[f]]

\* (mutant) the reset without its WHERE clause
ResetStandings_EveryDivision(pl, d) ==
    [p \in 1..Len(pl) |->
        [pl[p] EXCEPT !.played = 0, !.won = 0, !.lost = 0, !.points = 0]]

\* UPDATE players SET played = 0, won = 0, lost = 0, points = 0 WHERE division_id = $1
ResetStandings(pl, d) ==
    [p \in 1..Len(pl) |->
        IF pl[p].division_id = d
        THEN [pl[p] EXCEPT !.played = 0, !.won = 0, !.lost = 0, !.points = 0]
        ELSE pl[p]]

\* the INSERTs of the loop: the k-th pair gets the k-th id of the sequence
InsertFixtures(fx, d, pairs, firstId) ==
    [f \in DOMAIN fx \cup (firstId..(firstId + Len(pairs) - 1)) |->
        IF f \in DOMAIN fx THEN fx[f]
        ELSE NewFixture(d, pairs[f - firstId + 1][1], pairs[f - firstId + 1][2])]

\* (mutant) the roster check letting a single player through
InsufficientPlayers_LessThanOne(n) == n < 1

\* players.length < 2
InsufficientPlayers(n) == n < 2

\* version 1 resets the standings of the division, version 2 does not
ResetOnGenerate(v, pl, d) == IF v = 1 THEN ResetStandings(pl, d) ELSE pl

\* One whole request run alone; roster is what the SELECT returned.
generateFixtures(v, pl, fx, firstId, d, roster) ==
    IF InsufficientPlayers(Len(roster))
    THEN [status |-> "InsufficientPlayers", players |-> pl, fixtures |-> fx,
          nextId |-> firstId]
    ELSE [status |-> "ok",
          players |-> ResetOnGenerate(v, pl, d),
          fixtures |-> InsertFixtures(DeleteFixtures(fx, d), d, Pairs(roster), firstId),
          nextId |-> firstId + Len(Pairs(roster))]

\* ------------------------------------------------------------- inputs
\* request bodies tried: one per branch of the validators
GridWinA == << <<6, 2>>, <<3, 6>>, <<7, 5>> >>
GridWinB == << <<2, 6>>, <<2, 6>> >>
Bodies ==
    { Payload(GridWinA), Payload(GridWinB),
      Payload(<<>>),
      Payload(<< <<6, 0>>, <<6, 4>>, <<0, 6>>, <<6, 1>> >>),
      Payload(<< <<6>> >>),
      Payload(<< <<6, 6>> >>),
      Payload(<< <<8, 6>> >>),
      Payload(<< <<6, 2>>, <<3, 6>> >>) }

\* the ids a request may name: those handed out so far and the next one
RequestIds == 1..(MaxFixtureId + 1)
\* the bodies some handler accepts
AcceptedBodies == {b \in Bodies : ParseV1(b).error = "ok" \/ ParseV2(b).error = "ok"}
DivisionIds == 1..MaxDivisions

\* the HTTP status of a response
StatusOf(outcome) ==
    IF outcome = "ok" THEN 200
    ELSE IF outcome = "FixtureNotFound" THEN 404
    ELSE IF outcome = "DatabaseError" THEN 500
    ELSE 400

NoRequest == [op |-> "none", status |-> 0, prior |-> FALSE]

\* ------------------------------------------------------------- pooled clients
Clients == 1..NumClients

\* a client between requests: no open transaction, nothing written
IdleTx ==
    [pc |-> "idle", op |-> "none", v |-> 0, id |-> 0, body |-> Payload(<<>>),
     fixture |-> Null, roster |-> <<>>, targets |-> {}, k |-> 0,
     wp |-> <<>>, wf |-> <<>>, outcome |-> "none", committed |-> FALSE, at |-> "none"]

\* ------------------------------------------------------------- the requests, one at a time
Init ==
    /\ nDivisions = 0
    /\ players = <<>>
    /\ fixtures = <<>>
    /\ nextFixtureId = 1
    /\ last = NoRequest
    /\ tx = [c \in Clients |-> IdleTx]
    /\ db0 = [players |-> <<>>, fixtures |-> <<>>, nextId |-> 1]

\* POST /api/divisions
CreateDivision ==
    /\ nDivisions < MaxDivisions
    /\ nDivisions' = nDivisions + 1
    /\ last' = [NoRequest EXCEPT !.op = "createDivision", !.status = 200]
    /\ UNCHANGED <<players, fixtures, nextFixtureId, tx, db0>>

\* POST /api/divisions/:id/players
CreatePlayer(d) ==
    /\ d \in 1..nDivisions
    /\ Len(players) < MaxPlayers
    /\ players' = Append(players, NewPlayer(d))
    /\ last' = [NoRequest EXCEPT !.op = "createPlayer", !.status = 200]
    /\ UNCHANGED <<nDivisions, fixtures, nextFixtureId, tx, db0>>

\* POST /api/divisions/:id/generate-fixtures, the SELECT having returned roster
GenerateWith(v, d, roster) ==
    LET g == generateFixtures(v, players, fixtures, nextFixtureId, d, roster)
    IN  /\ g.nextId <= MaxFixtureId + 1
        /\ players' = g.players
        /\ fixtures' = g.fixtures
        /\ nextFixtureId' = g.nextId
        /\ last' = [op |-> "generateFixtures", status |-> StatusOf(g.status),
                    prior |-> \E f \in FixturesOf(fixtures, d) : fixtures[f].played]
        /\ UNCHANGED <<nDivisions, tx, db0>>

GenerateFixtures(v, d) == \E roster \in Rosters(players, d) : GenerateWith(v, d, roster)

\* PUT /api/fixtures/:id/result
RecordResult(v, id, body) ==
    LET r == recordResult(v, players, fixtures, id, body)
    IN  /\ id <= nextFixtureId
        /\ players' = r.players
        /\ fixtures' = r.fixtures
        /\ last' = [op |-> "recordResult", status |-> StatusOf(r.status), prior |-> r.prior]
        /\ UNCHANGED <<nDivisions, nextFixtureId, tx, db0>>

Next ==
    \/ CreateDivision
    \/ \E d \in DivisionIds : CreatePlayer(d)
    \/ \E v \in Versions, d \in DivisionIds : GenerateFixtures(v, d)
    \/ \E v \in Versions, id \in RequestIds, body \in Bodies : RecordResult(v, id, body)

Spec == Init /\ [][Next]_vars

\* ------------------------------------------------------------- transactions
\* The same handlers, one SQL statement per step, on PostgreSQL's default
\* READ COMMITTED isolation: a transaction's writes (wp: players rows, wf:
\* fixtures rows, Null for a deleted row) stay private until COMMIT and lock
\* their rows; a statement that writes or locks a row waits while another
\* transaction holds it, then works on the committed row; a plain SELECT reads
\* the committed rows without waiting.
Put(w, key, val) == [x \in DOMAIN w \cup {key} |-> IF x = key THEN val ELSE w[x]]

MergePlayers(pl, wp) == [p \in 1..Len(pl) |-> IF p \in DOMAIN wp THEN wp[p] ELSE pl[p]]

MergeFixtures(fx, wf) ==
    [f \in {g \in DOMAIN fx \cup DOMAIN wf : g \in DOMAIN wf => ~IsNull(wf[g])} |->
        IF f \in DOMAIN wf THEN Val(wf[f]) ELSE fx[f]]

\* what the statements of client c see
ViewPlayers(c) == MergePlayers(players, tx[c].wp)
ViewFixtures(c) == MergeFixtures(fixtures, tx[c].wf)

PlayerLocked(c, p) == \E o \in Clients \ {c} : p \in DOMAIN tx[o].wp
FixtureLocked(c, f) == \E o \in Clients \ {c} : f \in DOMAIN tx[o].wf

\* (mutant) no ROLLBACK: what the transaction wrote stays
AfterRollback_KeepsWrites(table, written) == written

\* ROLLBACK: the tables as the transaction found them
AfterRollback(table, written) == table

\* the catch block: ROLLBACK, answer with outcome
Abort(c, outcome) ==
    /\ players' = AfterRollback(players, ViewPlayers(c))
    /\ fixtures' = AfterRollback(fixtures, ViewFixtures(c))
    /\ tx' = [tx EXCEPT ![c].wp = <<>>, ![c].wf = <<>>, ![c].pc = "done",
                        ![c].outcome = outcome, ![c].at = tx[c].pc]

Parse(v, body) == IF v = 1 THEN ParseV1(body) ELSE ParseV2(body)

\* the bodies the concurrent requests carry
TxBodies == {Payload(GridWinA), Payload(GridWinB), Payload(<< <<6, 6>> >>)}

\* PUT /api/fixtures/:id/result arrives. Version 2 validates before it opens
\* the transaction and answers 400 at once.
TxStartRecord(c) ==
    \E v \in Versions, id \in RequestIds, body \in TxBodies :
        /\ tx[c].pc = "idle"
        /\ id <= nextFixtureId
        /\ tx' = [tx EXCEPT ![c] =
                    IF v = 2 /\ ParseV2(body).error # "ok"
                    THEN [IdleTx EXCEPT !.pc = "done", !.op = "recordResult", !.v = v,
                                        !.id = id, !.body = body,
                                        !.outcome = ParseV2(body).error]
                    ELSE [IdleTx EXCEPT !.pc = "select", !.op = "recordResult", !.v = v,
                                        !.id = id, !.body = body]]
        /\ UNCHANGED <<nDivisions, players, fixtures, nextFixtureId, last, db0>>

\* BEGIN; SELECT * FROM fixtures WHERE id = $1 (version 2: FOR UPDATE)
TxSelectFixture(c) ==
    LET t == tx[c]
    IN  /\ t.pc = "select"
        /\ t.v = 2 => ~FixtureLocked(c, t.id)
        /\ IF t.id \notin DOMAIN fixtures
           THEN Abort(c, "FixtureNotFound")
           ELSE /\ tx' = [tx EXCEPT
                        ![c].fixture = Some(fixtures[t.id]),
                        ![c].wf = IF t.v = 2 THEN Put(t.wf, t.id, Some(fixtures[t.id])) ELSE t.wf,
                        ![c].pc = IF NeedsReverse(t.v, fixtures[t.id]) THEN "reverse1" ELSE "save"]
                /\ UNCHANGED <<players, fixtures>>
        /\ UNCHANGED <<nDivisions, nextFixtureId, last, db0>>

\* one UPDATE players of the undo block
TxReverse(c) ==
    LET t == tx[c]
        k == IF t.pc = "reverse1" THEN 1 ELSE 2
        p == ReverseRow(t.v, Val(t.fixture), k)
    IN  /\ t.pc \in {"reverse1", "reverse2"}
        /\ ~PlayerLocked(c, p)
        /\ tx' = [tx EXCEPT
                    ![c].wp = Put(t.wp, p, ReverseUpdate(t.v, ViewPlayers(c), Val(t.fixture), k)[p]),
                    ![c].pc = IF k = 1 THEN "reverse2" ELSE "save"]
        /\ UNCHANGED <<nDivisions, players, fixtures, nextFixtureId, last, db0>>

\* version 1 validates here (a throw rolls back); then UPDATE fixtures ... WHERE id = $5
TxSave(c) ==
    LET t == tx[c]
        r == Parse(t.v, t.body)
    IN  /\ t.pc = "save"
        /\ IF r.error # "ok"
           THEN Abort(c, r.error)
           ELSE /\ ~FixtureLocked(c, t.id)
                /\ tx' = [tx EXCEPT
                        ![c].wf = IF t.id \in DOMAIN ViewFixtures(c)
                                  THEN Put(t.wf, t.id, Some(SaveResult(t.v, ViewFixtures(c)[t.id], r)))
                                  ELSE t.wf,
                        ![c].pc = "apply1"]
                /\ UNCHANGED <<players, fixtures>>
        /\ UNCHANGED <<nDivisions, nextFixtureId, last, db0>>

\* one UPDATE players of the apply block
TxApply(c) ==
    LET t == tx[c]
        k == IF t.pc = "apply1" THEN 1 ELSE 2
        p == ApplyRow(Val(t.fixture), k)
        r == Parse(t.v, t.body)
    IN  /\ t.pc \in {"apply1", "apply2"}
        /\ ~PlayerLocked(c, p)
        /\ tx' = [tx EXCEPT
                    ![c].wp = Put(t.wp, p,
                                  ApplyUpdate(ViewPlayers(c), Val(t.fixture), r.p1Sets, r.p2Sets, k)[p]),
                    ![c].pc = IF k = 1 THEN "apply2" ELSE "commit"]
        /\ UNCHANGED <<nDivisions, players, fixtures, nextFixtureId, last, db0>>

\* COMMIT: the writes become the committed rows, the locks go.  recordResult
\* answers 200; generateFixtures goes on to read the new fixtures back.
TxCommit(c) ==
    LET t == tx[c]
    IN  /\ t.pc = "commit"
        /\ players' = ViewPlayers(c)
        /\ fixtures' = ViewFixtures(c)
        /\ tx' = [tx EXCEPT ![c].wp = <<>>, ![c].wf = <<>>, ![c].committed = TRUE,
                            ![c].pc = IF t.op = "recordResult" THEN "done" ELSE "readback",
                            ![c].outcome = IF t.op = "recordResult" THEN "ok" ELSE t.outcome]
        /\ UNCHANGED <<nDivisions, nextFixtureId, last, db0>>

\* POST /api/divisions/:id/generate-fixtures arrives
TxStartGenerate(c) ==
    \E v \in Versions, d \in DivisionIds :
        /\ tx[c].pc = "idle"
        /\ tx' = [tx EXCEPT ![c] = [IdleTx EXCEPT !.pc = "selectPlayers",
                                        !.op = "generateFixtures", !.v = v, !.id = d]]
        /\ UNCHANGED <<nDivisions, players, fixtures, nextFixtureId, last, db0>>

\* BEGIN; SELECT * FROM players WHERE division_id = $1; fewer than 2: ROLLBACK, 400
TxSelectPlayers(c) ==
    LET t == tx[c]
    IN  /\ t.pc = "selectPlayers"
        /\ \E roster \in Rosters(players, t.id) :
              IF InsufficientPlayers(Len(roster))
              THEN Abort(c, "InsufficientPlayers")
              ELSE /\ tx' = [tx EXCEPT ![c].roster = roster, ![c].pc = "delete"]
                   /\ UNCHANGED <<players, fixtures>>
        /\ UNCHANGED <<nDivisions, nextFixtureId, last, db0>>

\* DELETE FROM fixtures WHERE division_id = $1.  The statement takes the rows
\* it sees when it starts (targets); if another transaction holds one of them
\* it waits, and then deletes those of its targets that are still there.
TxDelete(c) ==
    LET t == tx[c]
        targets == IF t.pc = "delete" THEN FixturesOf(fixtures, t.id) ELSE t.targets
        free == \A f \in targets : ~FixtureLocked(c, f)
        gone == {f \in targets : f \in DOMAIN fixtures}
    IN  /\ t.pc \in {"delete", "deleteWait"}
        /\ t.pc = "deleteWait" => free
        /\ tx' = [tx EXCEPT
                    ![c].targets = IF free THEN {} ELSE targets,
                    ![c].wf = IF free
                              THEN [f \in DOMAIN t.wf \cup gone |->
                                       IF f \in gone THEN Null ELSE t.wf[f]]
                              ELSE t.wf,
                    ![c].k = 1,
                    ![c].pc = IF ~free THEN "deleteWait"
                              ELSE IF t.v = 1 THEN "reset" ELSE "insert"]
        /\ UNCHANGED <<nDivisions, players, fixtures, nextFixtureId, last, db0>>

\* version 1 only: UPDATE players SET played = 0, ... WHERE division_id = $1
TxReset(c) ==
    LET t == tx[c]
        rows == PlayersOf(players, t.id)
        reset == ResetStandings(ViewPlayers(c), t.id)
    IN  /\ t.pc = "reset"
        /\ \A p \in rows : ~PlayerLocked(c, p)
        /\ tx' = [tx EXCEPT
                    ![c].wp = [p \in DOMAIN t.wp \cup rows |->
                                  IF p \in rows THEN reset[p] ELSE t.wp[p]],
                    ![c].pc = "insert"]
        /\ UNCHANGED <<nDivisions, players, fixtures, nextFixtureId, last, db0>>

\* one INSERT INTO fixtures of the loop; the id comes from the sequence, which
\* no rollback gives back
TxInsert(c) ==
    LET t == tx[c]
        pairs == Pairs(t.roster)
        row == InsertFixtures(<<>>, t.id, <<pairs[t.k]>>, nextFixtureId)[nextFixtureId]
    IN  /\ t.pc = "insert"
        /\ nextFixtureId <= MaxFixtureId
        /\ nextFixtureId' = nextFixtureId + 1
        /\ tx' = [tx EXCEPT
                    ![c].wf = Put(t.wf, nextFixtureId, Some(row)),
                    ![c].k = t.k + 1,
                    ![c].pc = IF t.k = Len(pairs) THEN "commit" ELSE "insert"]
        /\ UNCHANGED <<nDivisions, players, fixtures, last, db0>>

\* after COMMIT: SELECT the division's fixtures, answer 200 with them
TxReadBack(c) ==
    /\ tx[c].pc = "readback"
    /\ tx' = [tx EXCEPT ![c].pc = "done", ![c].outcome = "ok"]
    /\ UNCHANGED <<nDivisions, players, fixtures, nextFixtureId, last, db0>>

\* any statement of the request throws (connection lost, deadlock victim, ...):
\* the catch block issues ROLLBACK and answers with an error
TxFail(c) ==
    /\ tx[c].pc \notin {"idle", "done"}
    /\ Abort(c, "DatabaseError")
    /\ UNCHANGED <<nDivisions, nextFixtureId, last, db0>>

\* the database the concurrent requests meet: one division of NumTxPlayers
\* players with its fixtures generated, the first fixture unplayed or played
SeedPlayers == [p \in 1..NumTxPlayers |-> NewPlayer(1)]
SeedRoster == [i \in 1..NumTxPlayers |-> i]
SeedGenerated == generateFixtures(1, SeedPlayers, <<>>, 1, 1, SeedRoster)
SeedPlayed == recordResult(2, SeedGenerated.players, SeedGenerated.fixtures, 1, Payload(GridWinA))
Seeds ==
    { [players |-> SeedGenerated.players, fixtures |-> SeedGenerated.fixtures,
       nextId |-> SeedGenerated.nextId],
      [players |-> SeedPlayed.players, fixtures |-> SeedPlayed.fixtures,
       nextId |-> SeedGenerated.nextId] }

TxInit ==
    /\ nDivisions = 1
    /\ db0 \in Seeds
    /\ players = db0.players
    /\ fixtures = db0.fixtures
    /\ nextFixtureId = db0.nextId
    /\ last = NoRequest
    /\ tx = [c \in Clients |-> IdleTx]

TxNext ==
    \E c \in Clients :
        \/ TxStartRecord(c)
        \/ TxSelectFixture(c)
        \/ TxReverse(c)
        \/ TxSave(c)
        \/ TxApply(c)
        \/ TxCommit(c)
        \/ TxStartGenerate(c)
        \/ TxSelectPlayers(c)
        \/ TxDelete(c)
        \/ TxReset(c)
        \/ TxInsert(c)
        \/ TxReadBack(c)
        \/ TxFail(c)

SpecTx == TxInit /\ [][TxNext]_vars

\* ------------------------------------------------------------- a migrated database
\* runMigrations of version 1 adds set_scores, player1_sets and player2_sets,
\* with no default, to a fixtures table that predates them: every row of that
\* table holds NULL in the three columns.  A result recorded before the
\* migration is a row with played and winner_id only, and the standings it
\* earned are the match-based ones: winner won + 1, points + 3, loser lost + 1.
LegacyUnplayed(d, p1, p2) ==
    [NewFixture(d, p1, p2) EXCEPT !.player1_sets = Null, !.player2_sets = Null]

LegacyFixture(d, p1, p2, winner) ==
    [LegacyUnplayed(d, p1, p2) EXCEPT !.winner_id = Some(winner), !.played = TRUE]

LegacyWinner(row) == [row EXCEPT !.played = @ + 1, !.won = @ + 1, !.points = @ + 3]
LegacyLoser(row) == [row EXCEPT !.played = @ + 1, !.lost = @ + 1]

\* one division of MaxPlayers players; player 1 has a fixture against each
\* other player, and the one against player 2 was played before the migration
LegacyDatabase(winner) ==
    [players |-> [p \in 1..MaxPlayers |->
                    IF p = winner THEN LegacyWinner(NewPlayer(1))
                    ELSE IF p \in {1, 2} THEN LegacyLoser(NewPlayer(1))
                    ELSE NewPlayer(1)],
     fixtures |-> [f \in 1..(MaxPlayers - 1) |->
                    IF f = 1 THEN LegacyFixture(1, 1, 2, winner)
                    ELSE LegacyUnplayed(1, 1, f + 1)],
     nextId |-> MaxPlayers]

\* the bodies tried on it: grids, and the integer totals of older callers
LegacyBodies ==
    { Payload(GridWinA), Payload(GridWinB),
      Totals(2, 0), Totals(-1, 0), Totals(1, 1),
      [set_scores |-> Null, player1_score |-> Null, player2_score |-> Null] }

LegacyInit ==
    /\ nDivisions = 1
    /\ db0 \in {LegacyDatabase(winner) : winner \in {1, 2}}
    /\ players = db0.players
    /\ fixtures = db0.fixtures
    /\ nextFixtureId = db0.nextId
    /\ last = NoRequest
    /\ tx = [c \in Clients |-> IdleTx]

LegacyNext ==
    \E v \in Versions, id \in RequestIds, body \in LegacyBodies : RecordResult(v, id, body)

SpecLegacy == LegacyInit /\ [][LegacyNext]_vars

\* ------------------------------------------------------------- two divisions
\* the database after two divisions were created, NumTxPlayers players added
\* to each and the fixtures of both generated
TwoDivisionPlayers ==
    [p \in 1..(2 * NumTxPlayers) |-> NewPlayer(IF p <= NumTxPlayers THEN 1 ELSE 2)]
FirstGenerated ==
    generateFixtures(1, TwoDivisionPlayers, <<>>, 1, 1, SeedRoster)
SecondGenerated ==
    generateFixtures(2, FirstGenerated.players, FirstGenerated.fixtures, FirstGenerated.nextId,
                     2, [i \in 1..NumTxPlayers |-> NumTxPlayers + i])

TwoDivisionsInit ==
    /\ nDivisions = 2
    /\ players = SecondGenerated.players
    /\ fixtures = SecondGenerated.fixtures
    /\ nextFixtureId = SecondGenerated.nextId
    /\ last = NoRequest
    /\ tx = [c \in Clients |-> IdleTx]
    /\ db0 = [players |-> players, fixtures |-> fixtures, nextId |-> nextFixtureId]

TwoDivisionsNext ==
    \/ \E v \in Versions, d \in DivisionIds : GenerateFixtures(v, d)
    \/ \E v \in Versions, id \in RequestIds, body \in Bodies : RecordResult(v, id, body)

SpecTwoDivisions == TwoDivisionsInit /\ [][TwoDivisionsNext]_vars

\* ------------------------------------------------------------- helpers of the properties
StoredSets(m) == IF IsNull(m) THEN 0 ELSE Val(m)
PlayedBy(p) ==
    {f \in DOMAIN fixtures :
        fixtures[f].played /\ (fixtures[f].player1_id = p \/ fixtures[f].player2_id = p)}
SetsFor(p, f) ==
    IF fixtures[f].player1_id = p THEN StoredSets(fixtures[f].player1_sets)
    ELSE StoredSets(fixtures[f].player2_sets)
SetsAgainst(p, f) ==
    IF fixtures[f].player1_id = p THEN StoredSets(fixtures[f].player2_sets)
    ELSE StoredSets(fixtures[f].player1_sets)
RECURSIVE SumFor(_, _)
SumFor(p, S) ==
    IF S = {} THEN 0
    ELSE LET f == CHOOSE x \in S : TRUE IN SetsFor(p, f) + SumFor(p, S \ {f})
RECURSIVE SumAgainst(_, _)
SumAgainst(p, S) ==
    IF S = {} THEN 0
    ELSE LET f == CHOOSE x \in S : TRUE IN SetsAgainst(p, f) + SumAgainst(p, S \ {f})
ZeroStats(row) == row.played = 0 /\ row.won = 0 /\ row.lost = 0 /\ row.points = 0
Stats(row) == <<row.played, row.won, row.lost, row.points>>
Index(roster, p) == CHOOSE i \in 1..Len(roster) : roster[i] = p

\* ------------------------------------------------------------- C1
\* C1: recording G1 and then G2 on a fixture leaves every player's
\* {played, sets_won, sets_lost, points} as recording G2 alone leaves them,
\* from every reachable state, for every fixture and every two accepted grids;
\* on an unplayed fixture GridWinA then GridWinB gives player 1 played +1,
\* points +0 and player 2 played +1, points +2.
C1_IdempotentCorrection ==
    \A v \in Versions, w \in Versions, id \in DOMAIN fixtures,
       b1 \in AcceptedBodies, b2 \in AcceptedBodies :
        LET r1 == recordResult(v, players, fixtures, id, b1)
            r12 == recordResult(w, r1.players, r1.fixtures, id, b2)
            r2 == recordResult(w, players, fixtures, id, b2)
            p1 == fixtures[id].player1_id
            p2 == fixtures[id].player2_id
        IN  (r1.status = "ok" /\ r12.status = "ok") =>
                /\ r2.status = "ok"
                /\ \A p \in 1..Len(players) : Stats(r12.players[p]) = Stats(r2.players[p])
                /\ (~fixtures[id].played /\ b1 = Payload(GridWinA) /\ b2 = Payload(GridWinB)) =>
                      /\ r12.players[p1].played = players[p1].played + 1
                      /\ r12.players[p2].played = players[p2].played + 1
                      /\ r12.players[p1].points = players[p1].points
                      /\ r12.players[p2].points = players[p2].points + 2

\* a correction has been recorded: the last request re-recorded a played fixture
C1_Witness == last.op = "recordResult" /\ last.status = 200 /\ last.prior

\* ------------------------------------------------------------- C2
\* C2: every player's played is the number of played fixtures of the player,
\* sets_won the sum of the player's stored set counts over them, sets_lost the
\* sum of the opponents' stored set counts, and points = sets_won.
C2_Ledger ==
    \A p \in 1..Len(players) :
        /\ players[p].played = Cardinality(PlayedBy(p))
        /\ players[p].won = SumFor(p, PlayedBy(p))
        /\ players[p].lost = SumAgainst(p, PlayedBy(p))
        /\ players[p].points = players[p].won

\* ------------------------------------------------------------- C6
\* C6: a request whose grid the validator (computeSetsFromGrid) rejects changes
\* no fixture row and no player's stats.
C6_RejectedGridNoChange ==
    [][last'.op = "recordResult" =>
       \A v \in Versions, id \in RequestIds, body \in Bodies :
          (RecordResult(v, id, body) /\ ~IsNull(body.set_scores)
              /\ computeSetsFromGrid(Val(body.set_scores)).error # "ok")
          => UNCHANGED <<players, fixtures>>]_vars

\* ------------------------------------------------------------- C7
\* C7: a request naming no existing fixture answers 404 Fixture not found,
\* whatever the grid, and changes nothing.
C7_NotFoundFirst ==
    [][last'.op = "recordResult" =>
       \A v \in Versions, id \in RequestIds, body \in Bodies :
          (RecordResult(v, id, body) /\ id \notin DOMAIN fixtures)
          => (last'.status = 404 /\ UNCHANGED <<players, fixtures>>)]_vars

\* ------------------------------------------------------------- C8
\* the fixtures of division d are exactly the pairs of roster, unplayed, in
\* the order of the nested loops
GeneratedExactly(d, roster) ==
    LET F == FixturesOf(fixtures, d)
        n == Len(roster)
        I1(f) == Index(roster, fixtures[f].player1_id)
        I2(f) == Index(roster, fixtures[f].player2_id)
    IN  /\ 2 * Cardinality(F) = n * (n - 1)
        /\ \A f \in F :
              /\ ~fixtures[f].played
              /\ IsNull(fixtures[f].set_scores) /\ IsNull(fixtures[f].winner_id)
              /\ fixtures[f].player1_id \in PlayersOf(players, d)
              /\ fixtures[f].player2_id \in PlayersOf(players, d)
              /\ I1(f) < I2(f)
        /\ \A i \in 1..n, j \in 1..n :
              i < j => Cardinality({f \in F : {fixtures[f].player1_id, fixtures[f].player2_id}
                                                = {roster[i], roster[j]}}) = 1
        /\ \A f \in F, g \in F :
              f < g => (I1(f) < I1(g) \/ (I1(f) = I1(g) /\ I2(f) < I2(g)))

\* C8: generateFixtures on a division of N >= 2 players leaves it with exactly
\* N*(N-1)/2 fixtures, all unplayed, one per unordered pair of its players,
\* created in the order (i, j), i from first to last and each later j.
C8_RoundRobin ==
    [][last'.op = "generateFixtures" =>
       \A v \in Versions, d \in DivisionIds : \A roster \in Rosters(players, d) :
          (GenerateWith(v, d, roster) /\ Len(roster) >= 2) => GeneratedExactly(d, roster)']_vars

\* a division of three players has just been given its three fixtures
C8_Witness ==
    /\ last.op = "generateFixtures" /\ last.status = 200
    /\ \E d \in DivisionIds :
          Cardinality(PlayersOf(players, d)) = 3 /\ Cardinality(FixturesOf(fixtures, d)) = 3

\* ------------------------------------------------------------- C9
\* C9: after a successful generateFixtures every fixture the division had is
\* gone and every player of the division has played = won = lost = points = 0.
C9_FullReplace ==
    [][last'.op = "generateFixtures" =>
       \A v \in Versions, d \in DivisionIds : \A roster \in Rosters(players, d) :
          (GenerateWith(v, d, roster) /\ Len(roster) >= 2)
          => /\ \A f \in FixturesOf(fixtures, d) : f \notin DOMAIN fixtures'
             /\ \A p \in PlayersOf(players, d) : ZeroStats(players'[p])]_vars

\* ------------------------------------------------------------- C10
\* C10: generateFixtures on a division of fewer than 2 players answers 400
\* (Need at least 2 players) and changes no fixture and no player.
C10_InsufficientNoOp ==
    [][last'.op = "generateFixtures" =>
       \A v \in Versions, d \in DivisionIds : \A roster \in Rosters(players, d) :
          (GenerateWith(v, d, roster) /\ Len(roster) < 2)
          => (last'.status = 400 /\ UNCHANGED <<players, fixtures, nextFixtureId>>)]_vars

\* generation was refused for a division of one player while the database
\* holds a recorded result
C10_Witness ==
    /\ last.op = "generateFixtures" /\ last.status = 400
    /\ \E d \in DivisionIds : Cardinality(PlayersOf(players, d)) = 1
    /\ \E f \in DOMAIN fixtures : fixtures[f].played

\* ------------------------------------------------------------- serial reference
\* the request of client c run alone on database s; a request that a failure
\* rolled back does nothing
Serial(c, s) ==
    LET t == tx[c]
    IN  IF t.outcome = "DatabaseError" /\ ~t.committed THEN s
        ELSE IF t.op = "recordResult"
        THEN LET r == recordResult(t.v, s.players, s.fixtures, t.id, t.body)
             IN  [players |-> r.players, fixtures |-> r.fixtures]
        ELSE LET g == generateFixtures(t.v, s.players, s.fixtures, db0.nextId, t.id, t.roster)
             IN  [players |-> g.players, fixtures |-> g.fixtures]

Orders == {o \in [1..NumClients -> Clients] : \A i, j \in 1..NumClients : i # j => o[i] # o[j]}

RECURSIVE SerialRun(_, _, _)
SerialRun(o, i, s) == IF i > NumClients THEN s ELSE SerialRun(o, i + 1, Serial(o[i], s))

Start0 == [players |-> db0.players, fixtures |-> db0.fixtures]
Committed == [players |-> players, fixtures |-> fixtures]
AllDone == \A c \in Clients : tx[c].pc = "done"
SomeSerialOrder == \E o \in Orders : Committed = SerialRun(o, 1, Start0)

\* ------------------------------------------------------------- C3
\* C3: when concurrent recordResult requests on the same fixture have all
\* finished, the fixture row and the players' stats are those of running the
\* requests one after the other in some order.
C3_SameFixtureSerialized ==
    (/\ AllDone
     /\ \A c \in Clients : tx[c].op = "recordResult"
     /\ \A c \in Clients, o \in Clients : tx[c].id = tx[o].id)
    => SomeSerialOrder

\* ------------------------------------------------------------- C4
\* a recordResult on a fixture of division D and a generateFixtures(D) have
\* both finished, and no two requests are of the same kind
RecordAndRegenerate ==
    /\ AllDone
    /\ \E c \in Clients, o \in Clients :
          /\ tx[c].op = "recordResult" /\ tx[c].id \in DOMAIN db0.fixtures
          /\ tx[o].op = "generateFixtures"
          /\ db0.fixtures[tx[c].id].division_id = tx[o].id
    /\ \A c \in Clients, o \in Clients : tx[c].op = tx[o].op => c = o

\* C4: for every interleaving of a recordResult on a fixture of division D
\* with a generateFixtures(D), the committed final state is that of one of the
\* serial orders of the requests.
C4_NoRaceWithRegeneration == RecordAndRegenerate => SomeSerialOrder

\* ------------------------------------------------------------- C5
\* the request of client c is the only one that has run
Alone(c) == \A o \in Clients \ {c} : tx[o].pc = "idle"

\* C5: a recordResult that fails at any statement is rolled back: the failing
\* step leaves the committed rows as they are and drops the writes; run alone,
\* it leaves the database as before the call; the committed rows change only
\* at a COMMIT, and a recordResult that commits alone leaves exactly the whole
\* reverse, save and apply.
C5_AllOrNothing ==
    /\ [](\A c \in Clients :
            (tx[c].op = "recordResult" /\ tx[c].pc = "done" /\ Alone(c)) =>
                IF tx[c].committed
                THEN Committed = Serial(c, Start0)
                ELSE Committed = Start0)
    /\ [][\A c \in Clients :
            (tx[c].op = "recordResult" /\ tx'[c] # tx[c]) =>
                IF tx[c].pc = "commit" /\ tx'[c].committed
                THEN tx'[c].outcome = "ok"
                ELSE /\ UNCHANGED <<players, fixtures>>
                     /\ (tx'[c].outcome = "DatabaseError" =>
                            tx'[c].wp = <<>> /\ tx'[c].wf = <<>>)]_vars

\* a correction failed after its reverse had been written, and the database
\* is the one before the call
C5_Witness ==
    \E c \in Clients :
        /\ tx[c].op = "recordResult" /\ tx[c].outcome = "DatabaseError"
        /\ tx[c].at \in {"save", "apply1", "apply2", "commit"}
        /\ Val(tx[c].fixture).played
        /\ Alone(c)
        /\ Committed = Start0

\* ------------------------------------------------------------- C11
\* C11: a generateFixtures that answers with an error has committed nothing:
\* no request that answered with an error has passed its COMMIT, and run alone
\* it leaves the fixtures and the players' stats as before the call.
C11_GenerateAllOrNothing ==
    \A c \in Clients :
        (tx[c].op = "generateFixtures" /\ tx[c].pc = "done" /\ tx[c].outcome # "ok") =>
            /\ ~tx[c].committed
            /\ Alone(c) => Committed = Start0

\* ------------------------------------------------------------- C12
\* the two players of a fixture, in either order
PairOf(row) == {row.player1_id, row.player2_id}

\* C12: no two fixture rows of a division are for the same unordered pair of
\* players, also when generateFixtures requests for the division overlap.
C12_OneFixturePerPair ==
    \A f \in DOMAIN fixtures, g \in DOMAIN fixtures :
        (f # g /\ fixtures[f].division_id = fixtures[g].division_id)
        => PairOf(fixtures[f]) # PairOf(fixtures[g])

\* ------------------------------------------------------------- C13
\* C13: no player's played, sets_won, sets_lost or points is below zero, after
\* any sequence of results recorded from grids or from integer totals, on
\* fixtures new or played before the migration.
C13_NonNegativeStats ==
    \A p \in 1..Len(players) :
        /\ players[p].played >= 0
        /\ players[p].won >= 0
        /\ players[p].lost >= 0
        /\ players[p].points >= 0

\* ------------------------------------------------------------- C14
\* a row without a result, and a row with a decided one
NoResult(row) ==
    /\ IsNull(row.set_scores)
    /\ StoredSets(row.player1_sets) = 0 /\ StoredSets(row.player2_sets) = 0
    /\ IsNull(row.winner_id)

DecidedResult(row) ==
    /\ ~IsNull(row.player1_sets) /\ ~IsNull(row.player2_sets)
    /\ Val(row.player1_sets) # Val(row.player2_sets)
    /\ row.winner_id = Some(IF Val(row.player1_sets) > Val(row.player2_sets)
                            THEN row.player1_id ELSE row.player2_id)

FixtureRowOk(row) == IF row.played THEN DecidedResult(row) ELSE NoResult(row)

\* C14: a fixture with played = false has no set_scores, set counts null or
\* zero and no winner; a fixture with played = true has player1_sets #
\* player2_sets and as winner_id the player with more sets.  It holds of every
\* stored row, and of the row either handler would store over it for any
\* accepted body, grid or integer totals.
C14_FixtureRow ==
    /\ \A f \in DOMAIN fixtures : FixtureRowOk(fixtures[f])
    /\ \A v \in Versions, f \in DOMAIN fixtures, body \in Bodies \cup LegacyBodies :
          Parse(v, body).error = "ok"
          => FixtureRowOk(SaveResult(v, fixtures[f], Parse(v, body)))

\* a fixture won by its second player is stored next to an unplayed one
C14_Witness ==
    /\ \E f \in DOMAIN fixtures :
          fixtures[f].played /\ fixtures[f].winner_id = Some(fixtures[f].player2_id)
    /\ \E g \in DOMAIN fixtures : ~fixtures[g].played

\* ------------------------------------------------------------- C15
\* the set scores of the rule: 6 with two or more games clear, or 7-5, 7-6
PlausibleSet(a, b) ==
    \/ Max(a, b) = 6 /\ Max(a, b) - Min(a, b) >= 2
    \/ Max(a, b) = 7 /\ Max(a, b) - Min(a, b) \in {1, 2}

\* a grid of one to three untied pairs of non-negative games, one of them
\* outside the rule
ImplausibleGrid(grid) ==
    /\ Len(grid) \in 1..3
    /\ \A i \in 1..Len(grid) :
          Len(grid[i]) = 2 /\ grid[i][1] >= 0 /\ grid[i][2] >= 0 /\ grid[i][1] # grid[i][2]
    /\ \E i \in 1..Len(grid) : ~PlausibleSet(grid[i][1], grid[i][2])

\* C15: a request on an existing fixture whose grid holds an entry outside
\* the rule (such as [[8,6]]) fails with ImplausibleSetScore, answers 400 and
\* records nothing.
C15_ImplausibleRejected ==
    [][last'.op = "recordResult" =>
       \A v \in Versions, id \in RequestIds, body \in Bodies :
          (/\ RecordResult(v, id, body)
           /\ id \in DOMAIN fixtures
           /\ ~IsNull(body.set_scores)
           /\ ImplausibleGrid(Val(body.set_scores)))
          => /\ recordResult(v, players, fixtures, id, body).status = "ImplausibleSetScore"
             /\ last'.status = 400
             /\ UNCHANGED <<players, fixtures>>]_vars

\* ------------------------------------------------------------- C16
\* the most sets a grid may hold
MaxSets == 3
\* the grids the tallies are checked on: every grid of up to MaxSets entries
\* over these games, and the grids of Bodies
Games == {0, 5, 6, 7, 8}
Grids ==
    UNION {[1..n -> [1..2 -> Games]] : n \in 0..MaxSets}
        \cup {Val(b.set_scores) : b \in Bodies}

\* the sets of grid in which side has more games than the other side
SetsWonBy(grid, side) ==
    Cardinality({i \in 1..Len(grid) : Len(grid[i]) = 2 /\ grid[i][side] > grid[i][3 - side]})

\* two sets inside the rule, one to each side
SplitGrid(grid) ==
    /\ Len(grid) = 2
    /\ \A i \in 1..2 : Len(grid[i]) = 2 /\ PlausibleSet(grid[i][1], grid[i][2])
    /\ SetsWonBy(grid, 1) = 1 /\ SetsWonBy(grid, 2) = 1

\* what the claim says of validator v on grid
TalliesOk(v, grid) ==
    LET r == Parse(v, Payload(grid))
    IN  /\ r.error = "ok" =>
            /\ Len(grid) \in 1..MaxSets
            /\ r.p1Sets + r.p2Sets = Len(grid)
            /\ r.p1Sets = SetsWonBy(grid, 1)
            /\ r.p2Sets = SetsWonBy(grid, 2)
            /\ r.p1Sets # r.p2Sets
        /\ SplitGrid(grid) => r.error = "DrawNotAllowed"

TalliesOnGrids == \A v \in Versions, grid \in Grids : TalliesOk(v, grid)

\* C16: for every grid either validator accepts, the two tallies add up to
\* the number of sets of the grid (1 to MaxSets), side a has the sets with
\* a > b and side b the others, and the tallies differ; a grid of two valid
\* sets, one each, is rejected with DrawNotAllowed.  Checked on every grid
\* of Grids and on every grid a fixture stores.
C16_ValidatorTallies ==
    /\ TalliesOnGrids
    /\ \A v \in Versions, f \in DOMAIN fixtures :
          ~IsNull(fixtures[f].set_scores) => TalliesOk(v, Val(fixtures[f].set_scores))

\* a grid of three sets has been recorded with its tallies, two sets to one
C16_Witness ==
    /\ last.op = "recordResult" /\ last.status = 200
    /\ \E f \in DOMAIN fixtures :
          /\ fixtures[f].set_scores = Some(GridWinA)
          /\ fixtures[f].player1_sets = Some(2) /\ fixtures[f].player2_sets = Some(1)

\* ------------------------------------------------------------- C17
\* C17: a fixture row changes only by a recordResult, which leaves it played
\* (UNPLAYED to PLAYED, PLAYED to PLAYED); a played fixture stays played for as
\* long as its row exists, and a row goes only by a generateFixtures.
C17_Lifecycle ==
    [][/\ \A f \in DOMAIN fixtures \cap DOMAIN fixtures' :
             /\ fixtures[f].played => fixtures'[f].played
             /\ fixtures'[f] # fixtures[f] =>
                    fixtures'[f].played /\ last'.op = "recordResult"
       /\ \A f \in DOMAIN fixtures \ DOMAIN fixtures' : last'.op = "generateFixtures"]_vars

\* a played fixture has been corrected and is still played
C17_Witness ==
    /\ last.op = "recordResult" /\ last.status = 200 /\ last.prior
    /\ \E f \in DOMAIN fixtures :
          fixtures[f].played /\ fixtures[f].set_scores = Some(GridWinB)

\* ------------------------------------------------------------- C18
\* a result stored before the set columns existed: played, no set counts
LegacyRecord(row) == row.played /\ IsNull(row.player1_sets) /\ IsNull(row.player2_sets)

\* C18: every played fixture that stores set counts also stores a grid of 1
\* to MaxSets sets, and its player1_sets and player2_sets are the numbers of
\* stored sets with gamesA > gamesB and with gamesB > gamesA; also after a
\* result recorded from integer totals.
C18_SetsDerivedFromGrid ==
    \A f \in DOMAIN fixtures :
        (fixtures[f].played /\ ~LegacyRecord(fixtures[f])) =>
            LET row == fixtures[f]
                grid == Val(row.set_scores)
            IN  /\ ~IsNull(row.set_scores)
                /\ Len(grid) \in 1..MaxSets
                /\ row.player1_sets = Some(SetsWonBy(grid, 1))
                /\ row.player2_sets = Some(SetsWonBy(grid, 2))

\* ------------------------------------------------------------- C19
\* x lowered by n, not below zero
Clamped(x, n) == Max(x - n, 0)

\* the standings with the result stored in row taken back as the claim says:
\* a legacy record as one win worth 3 points for its winner and one loss for
\* the other player, clamped at zero; a set-based record by its stored counts
ReversedAsClaimed(pl, row) ==
    [p \in 1..Len(pl) |->
        IF p \notin PairOf(row) THEN pl[p]
        ELSE IF LegacyRecord(row)
        THEN IF row.winner_id = Some(p)
             THEN [pl[p] EXCEPT !.played = Clamped(@, 1), !.won = Clamped(@, 1),
                                !.points = Clamped(@, 3)]
             ELSE [pl[p] EXCEPT !.played = Clamped(@, 1), !.lost = Clamped(@, 1)]
        ELSE LET mine == IF p = row.player1_id THEN Val(row.player1_sets)
                         ELSE Val(row.player2_sets)
                 theirs == IF p = row.player1_id THEN Val(row.player2_sets)
                           ELSE Val(row.player1_sets)
             IN  [pl[p] EXCEPT !.played = @ - 1, !.won = @ - mine,
                               !.lost = @ - theirs, !.points = @ - mine]]

\* C19: a successful recordResult on a played fixture leaves the standings of
\* ReversedAsClaimed with the new set counts applied on top: the legacy undo
\* for a fixture that stores a winner_id and no set counts, the stored counts
\* for a fixture that stores them.
C19_LegacyReversal ==
    [][last'.op = "recordResult" /\ last'.status = 200 =>
       \A v \in Versions, id \in DOMAIN fixtures, body \in LegacyBodies :
          (/\ RecordResult(v, id, body)
           /\ fixtures[id].played
           /\ LegacyRecord(fixtures[id]) => ~IsNull(fixtures[id].winner_id))
          => players' = ApplyResult(ReversedAsClaimed(players, fixtures[id]), fixtures[id],
                                    Parse(v, body).p1Sets, Parse(v, body).p2Sets)]_vars

\* ------------------------------------------------------------- C20
\* player p still carries a result stored before the set columns existed
HasLegacyResult(p) ==
    \E f \in DOMAIN fixtures : LegacyRecord(fixtures[f]) /\ p \in PairOf(fixtures[f])

\* C20: points = sets_won for every player whose results are all set-based,
\* and every recordResult that needs no legacy undo changes each player's
\* points and sets_won by the same amount.
C20_PointsAreSetsWon ==
    /\ [](\A p \in 1..Len(players) :
            ~HasLegacyResult(p) => players[p].points = players[p].won)
    /\ [][last'.op = "recordResult" =>
            \A id \in DOMAIN fixtures :
               (fixtures'[id] # fixtures[id] /\ ~LegacyRecord(fixtures[id])) =>
                  \A p \in 1..Len(players) :
                     players'[p].points - players[p].points
                        = players'[p].won - players[p].won]_vars

\* ------------------------------------------------------------- C21
\* the sum of one stat over a set of players
RECURSIVE SumWon(_)
SumWon(S) ==
    IF S = {} THEN 0
    ELSE LET p == CHOOSE x \in S : TRUE IN players[p].won + SumWon(S \ {p})
RECURSIVE SumLost(_)
SumLost(S) ==
    IF S = {} THEN 0
    ELSE LET p == CHOOSE x \in S : TRUE IN players[p].lost + SumLost(S \ {p})
RECURSIVE SumPlayed(_)
SumPlayed(S) ==
    IF S = {} THEN 0
    ELSE LET p == CHOOSE x \in S : TRUE IN players[p].played + SumPlayed(S \ {p})

PlayedFixturesOf(d) == {f \in FixturesOf(fixtures, d) : fixtures[f].played}

\* C21: in every division the players' sets_won add up to their sets_lost,
\* and their played add up to twice the number of the division's fixtures
\* marked played.
C21_Conservation ==
    \A d \in DivisionIds :
        /\ SumWon(PlayersOf(players, d)) = SumLost(PlayersOf(players, d))
        /\ SumPlayed(PlayersOf(players, d)) = 2 * Cardinality(PlayedFixturesOf(d))

\* ------------------------------------------------------------- C22
\* nothing of a division other than d changes, comes or goes
OtherDivisionsUnchanged(d) ==
    /\ Len(players') = Len(players)
    /\ \A p \in 1..Len(players) : players[p].division_id # d => players'[p] = players[p]
    /\ \A f \in DOMAIN fixtures :
          fixtures[f].division_id # d => f \in DOMAIN fixtures' /\ fixtures'[f] = fixtures[f]
    /\ \A f \in DOMAIN fixtures' : fixtures'[f].division_id # d => f \in DOMAIN fixtures

\* only the row of fixture id and the stats of its two players change
OnlyFixtureAndItsPlayersChange(id) ==
    /\ DOMAIN fixtures' = DOMAIN fixtures
    /\ Len(players') = Len(players)
    /\ \A f \in DOMAIN fixtures \ {id} : fixtures'[f] = fixtures[f]
    /\ fixtures'[id].division_id = fixtures[id].division_id
    /\ fixtures'[id].player1_id = fixtures[id].player1_id
    /\ fixtures'[id].player2_id = fixtures[id].player2_id
    /\ \A p \in 1..Len(players) :
          /\ players'[p].division_id = players[p].division_id
          /\ p \notin PairOf(fixtures[id]) => players'[p] = players[p]

====
